---- MODULE Spec2Model ----
(***************************************************************************)
(* A model of the content discovery pipeline of ai-story-automation-tool:  *)
(* CrawlerManager (scraping/crawler_manager.py), the spiders it drives     *)
(* (scraping/spiders/*.py), ScraperConfig (scraping/config.py) and the     *)
(* RelevanceScorer (scraping/content_relevance.py).                        *)
(*                                                                         *)
(* Python dicts are functions from key strings to values; {} is the        *)
(* function with the empty domain.  Scores are integers: a sub-score is in *)
(* thousandths, a weight in tenths, a relevance score in ten-thousandths   *)
(* (so the threshold 0.5 is 5000).                                         *)
(*                                                                         *)
(* Spec is the manager with its discovery calls; CallSpec applies the      *)
(* functions of the scorer, the spiders and ScraperConfig one at a time.   *)
(***************************************************************************)
EXTENDS Integers, Sequences, FiniteSets, TLC

VARIABLES config, spider_classes, spiders, pc, urls, max_stories, instantiated,
          tasks, result, fn, input, output

vars == <<config, spider_classes, spiders, pc, urls, max_stories, instantiated,
          tasks, result, fn, input, output>>

\* the state of a CrawlerManager and of its discovery call
manager == <<config, spider_classes, spiders, pc, urls, max_stories, instantiated,
             tasks, result>>

\* one call of a function of the library on its own: the function, its
\* arguments, and what the call gave back
invocation == <<fn, input, output>>

(***************************************************************************)
(* Bounds of the model.                                                    *)
(***************************************************************************)
\* the longest urls list passed to discover_stories
MaxUrls == 2
\* the largest max_stories passed to discover_stories
MaxStoriesArg == 2

(***************************************************************************)
(* Python helpers.                                                         *)
(***************************************************************************)
EmptyDict == [k \in {} |-> 0]

\* bool(d) of a dict
Truthy(d) == DOMAIN d # {}

\* d[k] = v
Put(d, k, v) == [x \in (DOMAIN d) \cup {k} |-> IF x = k THEN v ELSE d[x]]

\* d.get(k, default)
Get(d, k, default) == IF k \in DOMAIN d THEN d[k] ELSE default

Min(a, b) == IF a < b THEN a ELSE b

Max(a, b) == IF a > b THEN a ELSE b

\* s[:n], n of either sign
SliceTo(s, n) ==
    IF n >= 0 THEN SubSeq(s, 1, Min(n, Len(s)))
    ELSE SubSeq(s, 1, Max(Len(s) + n, 0))

\* what a call that may raise gives back
Returned(v) == [raised |-> FALSE, value |-> v]

Raised == [raised |-> TRUE, value |-> EmptyDict]

(***************************************************************************)
(* ScraperConfig.                                                          *)
(***************************************************************************)
\* ScraperConfig(...): the dataclass constructor stores its arguments; the class
\* has no __post_init__, so nothing is checked and the call always returns
ScraperConfig(allowed_domains, request_delay, max_concurrent_requests, request_timeout) ==
    Returned([allowed_domains |-> allowed_domains,
              request_delay |-> request_delay,
              max_concurrent_requests |-> max_concurrent_requests,
              request_timeout |-> request_timeout])

DEFAULT_SCRAPER_CONFIG ==
    ScraperConfig(<<"medium.com", "substack.com", "news.ycombinator.com">>, 1, 5, 10).value

\* the configurations a CrawlerManager is constructed with: the default, a
\* narrow one that admits one request at a time, and one that validate() rejects
Configs ==
    { DEFAULT_SCRAPER_CONFIG,
      ScraperConfig(<<"substack.com">>, 0, 1, 10).value,
      ScraperConfig(<<"substack.com">>, 0, 0, 10).value }

\* ScraperConfig.validate: TRUE when it returns, FALSE when it raises ValueError
validate(cfg) ==
    /\ Len(cfg.allowed_domains) > 0
    /\ ~(cfg.request_delay < 0)
    /\ ~(cfg.max_concurrent_requests < 1)

(***************************************************************************)
(* The spider classes.  NewMockSpider is the subclass of the registration  *)
(* test: it overrides extract_story only.                                  *)
(***************************************************************************)
BuiltinSpiders == <<"MediumSpider", "SubstackSpider">>

SpiderClasses == {"MediumSpider", "SubstackSpider", "NewMockSpider"}

\* [lambda cfg: cls(cfg) for cls in classes]: every lambda closes over the one
\* variable cls of the comprehension, which holds the last class once the list is
\* built.  A factory is modelled by the class a call of it instantiates.
SpiderFactories(classes) ==
    [i \in 1..Len(classes) |-> classes[Len(classes)]]

\* spider_factory(self.config): BaseContentSpider.__init__ validates the config and
\* raises when it is invalid (none of the three classes replaces that check)
SpiderInit(cls, cfg) ==
    IF validate(cfg) THEN Returned([cls |-> cls, config |-> cfg]) ELSE Raised

(***************************************************************************)
(* The web the spiders read.  A URL is a string; what the code computes    *)
(* from its text is tabulated here.  An HTML document is the record of     *)
(* what the extractors look for in it; a text is the record of what the    *)
(* scorer and the extractors measure of it.                                *)
(***************************************************************************)
Urls ==
    { "https://a.substack.com/p/deep",
      "https://b.substack.com/p/brief",
      "https://c.substack.com/p/half",
      "https://d.substack.com/p/twin",
      "https://medium.com/p/story",
      "https://evil.org/success",
      "https://medium.com/error_handling",
      "http://[medium.com/max_stories" }

\* word in str(url)
UrlHas(url, word) ==
    CASE word = "success" -> url = "https://evil.org/success"
      [] word = "error_handling" -> url = "https://medium.com/error_handling"
      [] word = "max_stories" -> url = "http://[medium.com/max_stories"

\* urlparse(url).netloc; urlparse raises ValueError on an unclosed bracket
Netloc(url) ==
    CASE url = "https://a.substack.com/p/deep" -> Returned("a.substack.com")
      [] url = "https://b.substack.com/p/brief" -> Returned("b.substack.com")
      [] url = "https://c.substack.com/p/half" -> Returned("c.substack.com")
      [] url = "https://d.substack.com/p/twin" -> Returned("d.substack.com")
      [] url = "https://medium.com/p/story" -> Returned("medium.com")
      [] url = "https://evil.org/success" -> Returned("evil.org")
      [] url = "https://medium.com/error_handling" -> Returned("medium.com")
      [] url = "http://[medium.com/max_stories" -> Raised
      [] url = "https://medium.com/p/gone" -> Returned("medium.com")
      [] url = "https://medium.com/p/unchanged" -> Returned("medium.com")

\* domain in netloc
DomainIn(domain, netloc) ==
    CASE domain = "medium.com" -> netloc = "medium.com"
      [] domain = "substack.com" ->
            netloc \in {"a.substack.com", "b.substack.com", "c.substack.com",
                        "d.substack.com"}
      [] OTHER -> FALSE

EmptyText == [words |-> 0, chars |-> 0, unique |-> 0, kw |-> 0]

NoDate == [kind |-> "none", age |-> 0]

\* a naive ISO timestamp that lies age days before datetime.now()
NaiveDate(age) == [kind |-> "naive", age |-> age]

\* an ISO timestamp with a UTC offset ("...Z", "...+00:00")
AwareDate == [kind |-> "aware", age |-> 0]

\* the empty string as a timestamp
EmptyDate == [kind |-> "empty", age |-> 0]

\* a string that datetime.fromisoformat rejects
MalformedDate == [kind |-> "malformed", age |-> 0]

\* a document with the title and body containers MediumSpider looks for:
\* h1.pw-title and div.pw-post-body
MediumPage(text, published) ==
    [medium_title |-> TRUE, medium_body |-> TRUE,
     substack_title |-> FALSE, substack_body |-> FALSE, article |-> FALSE,
     text |-> text, published |-> published]

\* a document with the containers SubstackSpider looks for: h1.post-title and
\* div.body / div.markup
SubstackPage(text, published) ==
    [medium_title |-> FALSE, medium_body |-> FALSE,
     substack_title |-> TRUE, substack_body |-> TRUE, article |-> FALSE,
     text |-> text, published |-> published]

\* a document with none of the containers, "<html></html>" or ""
EmptyPage ==
    [medium_title |-> FALSE, medium_body |-> FALSE,
     substack_title |-> FALSE, substack_body |-> FALSE, article |-> FALSE,
     text |-> EmptyText, published |-> NoDate]

Response(status_code, text) == [status_code |-> status_code, text |-> text]

\* requests.get(url, headers=..., timeout=...): the final response of the
\* server, or a RequestException (connection refused, timeout) when there is none
requests_get(url) ==
    CASE url = "https://a.substack.com/p/deep" ->
            Returned(Response(200, SubstackPage([words |-> 1000, chars |-> 6000,
                                                 unique |-> 800, kw |-> 5], NaiveDate(0))))
      [] url = "https://b.substack.com/p/brief" ->
            Returned(Response(200, SubstackPage([words |-> 300, chars |-> 1800,
                                                 unique |-> 270, kw |-> 3], NaiveDate(15))))
      [] url = "https://c.substack.com/p/half" ->
            Returned(Response(200, SubstackPage([words |-> 1000, chars |-> 4000,
                                                 unique |-> 500, kw |-> 0], NoDate)))
      [] url = "https://d.substack.com/p/twin" ->
            Returned(Response(200, SubstackPage([words |-> 300, chars |-> 1800,
                                                 unique |-> 270, kw |-> 3], NaiveDate(15))))
      [] url = "https://medium.com/p/story" ->
            Returned(Response(200, MediumPage([words |-> 1000, chars |-> 6000,
                                               unique |-> 800, kw |-> 5], NaiveDate(0))))
      [] url = "https://medium.com/p/gone" -> Returned(Response(404, EmptyPage))
      [] url = "https://medium.com/p/unchanged" -> Returned(Response(304, EmptyPage))
      [] OTHER -> Raised

\* response.raise_for_status(): TRUE when it raises HTTPError, which it does
\* for the client and server error statuses
raise_for_status(response) ==
    response.status_code >= 400 /\ response.status_code < 600

\* requests.get(url) followed by raise_for_status(): the response, or a
\* RequestException
HttpGet(url) ==
    IF requests_get(url).raised THEN Raised
    ELSE IF raise_for_status(requests_get(url).value) THEN Raised
    ELSE requests_get(url)

(***************************************************************************)
(* BaseContentSpider and its subclasses.                                   *)
(***************************************************************************)
\* BaseContentSpider._is_allowed_domain, given the parsed netloc
is_allowed_domain(spider, netloc) ==
    \E i \in 1..Len(spider.config.allowed_domains) :
        DomainIn(spider.config.allowed_domains[i], netloc)

\* BaseContentSpider.fetch_content
fetch_content(spider, url) ==
    IF Netloc(url).raised THEN Raised
    ELSE IF ~is_allowed_domain(spider, Netloc(url).value) THEN Returned(EmptyDict)
    ELSE IF HttpGet(url).raised THEN Returned(EmptyDict)
    ELSE Returned([url |-> url, content |-> HttpGet(url).value.text,
                   status_code |-> HttpGet(url).value.status_code])

\* the calls of requests.get that fetch_content(url) makes
requests_issued(spider, url) ==
    IF Netloc(url).raised THEN <<>>
    ELSE IF ~is_allowed_domain(spider, Netloc(url).value) THEN <<>>
    ELSE <<url>>

\* the characters of a raw text: whitespace (\s), a letter, and the two
\* delimiters of an HTML entity
IsSpace(c) == c \in {" ", "\n"}

IsLetter(c) == c = "a"

\* re.sub(r'\s+', ' ', text): every maximal run of whitespace becomes one space
RECURSIVE CollapseWhitespace(_)
CollapseWhitespace(text) ==
    IF Len(text) = 0 THEN <<>>
    ELSE LET rest == CollapseWhitespace(Tail(text)) IN
         IF ~IsSpace(Head(text)) THEN <<Head(text)>> \o rest
         ELSE IF Len(text) > 1 /\ IsSpace(text[2]) THEN rest
         ELSE <<" ">> \o rest

\* str.strip()
RECURSIVE Strip(_)
Strip(text) ==
    IF Len(text) = 0 THEN <<>>
    ELSE IF IsSpace(Head(text)) THEN Strip(Tail(text))
    ELSE IF IsSpace(text[Len(text)]) THEN Strip(SubSeq(text, 1, Len(text) - 1))
    ELSE text

\* where a match of &[a-zA-Z]+; that begins at text[1] ends, 0 when there is none
EntityEnd(text) ==
    IF Len(text) < 3 \/ text[1] # "&" THEN 0
    ELSE LET letters == {n \in 1..(Len(text) - 1) :
                            \A k \in 2..(n + 1) : IsLetter(text[k])}
             run == Cardinality(letters)
         IN  IF run >= 1 /\ run + 2 <= Len(text) /\ text[run + 2] = ";"
             THEN run + 2 ELSE 0

\* re.sub(r'&[a-zA-Z]+;', ' ', text): the matches, leftmost first and not
\* overlapping, each replaced by one space
RECURSIVE RemoveEntities(_)
RemoveEntities(text) ==
    IF Len(text) = 0 THEN <<>>
    ELSE IF EntityEnd(text) > 0
    THEN <<" ">> \o RemoveEntities(SubSeq(text, EntityEnd(text) + 1, Len(text)))
    ELSE <<Head(text)>> \o RemoveEntities(Tail(text))

\* SubstackSpider._clean_text: collapse and strip first, then the entities
clean_text(text) == RemoveEntities(Strip(CollapseWhitespace(text)))

\* MediumSpider.extract_story
MediumExtractStory(content) ==
    IF ~Truthy(content) \/ "content" \notin DOMAIN content THEN EmptyDict
    ELSE LET html == content["content"]
             story_text == IF html.medium_body THEN html.text ELSE EmptyText
         IN  [url |-> Get(content, "url", ""),
              title |-> IF html.medium_title THEN "title" ELSE "Untitled",
              text |-> story_text,
              published_at |-> html.published,
              platform |-> "Medium"]

\* SubstackSpider.extract_story
SubstackExtractStory(content) ==
    IF ~Truthy(content) \/ "content" \notin DOMAIN content THEN EmptyDict
    ELSE LET html == content["content"]
             publication_date ==
                 IF html.published.kind \in {"empty", "malformed"} THEN NoDate
                 ELSE html.published
         IN  IF ~html.substack_body /\ ~html.article
             THEN EmptyDict   \* None.find_all: AttributeError, caught
             ELSE [url |-> Get(content, "url", ""),
                   title |-> IF html.substack_title THEN "title" ELSE "Untitled",
                   text |-> html.text,
                   published_at |-> publication_date,
                   platform |-> "Substack",
                   word_count |-> html.text.words,
                   reading_time_minutes |-> Max(1, html.text.words \div 250)]

\* spider.extract_story(content), by the class of the spider
extract_story(spider, content) ==
    CASE spider.cls = "MediumSpider" -> Returned(MediumExtractStory(content))
      [] spider.cls = "SubstackSpider" -> Returned(SubstackExtractStory(content))
      [] spider.cls = "NewMockSpider" -> Returned(EmptyDict)

(***************************************************************************)
(* RelevanceScorer.  The defaults of its constructor come first: weights   *)
(* in tenths, limits as they are.                                          *)
(***************************************************************************)
timeliness_weight == 3

depth_weight == 3

complexity_weight == 2

engagement_weight == 2

min_word_count == 250

max_age_days == 30

\* RelevanceScorer.__init__: it stores its arguments and checks none of them
RelevanceScorer(tw, dw, cw, ew, mwc, mad) ==
    [timeliness_weight |-> tw, depth_weight |-> dw, complexity_weight |-> cw,
     engagement_weight |-> ew, min_word_count |-> mwc, max_age_days |-> mad]

\* CrawlerManager.__init__: self.relevance_scorer = relevance_scorer or
\* RelevanceScorer(), for a manager constructed without a scorer
relevance_scorer ==
    RelevanceScorer(timeliness_weight, depth_weight, complexity_weight,
                    engagement_weight, min_word_count, max_age_days)

\* len(self.engagement_keywords)
max_keywords == 9

\* math.log(max(word_count, 1), 1000) in thousandths, rounded down, for the
\* word counts of this web (and of the canned stories of discover_stories)
Log1000(word_count) ==
    CASE word_count <= 1 -> 0
      [] word_count = 6 -> 259
      [] word_count = 249 -> 798
      [] word_count = 250 -> 799
      [] word_count = 251 -> 799
      [] word_count = 300 -> 825
      [] word_count = 500 -> 899
      [] word_count = 750 -> 958
      [] word_count = 1000 -> 1000
      [] word_count = 2000 -> 1100

\* max(0, min(x, 1)) of a sub-score in thousandths
Clamp01(x) == Max(0, Min(x, 1000))

\* a variant that takes a timestamp it cannot parse for a stale one
calculate_timeliness_stale(self, story) ==
    LET published_at == Get(story, "published_at", NoDate) IN
    IF published_at.kind \in {"none", "empty"} THEN Returned(500)
    ELSE IF published_at.kind = "aware" THEN Returned(500)
    ELSE IF published_at.kind = "malformed" THEN Returned(0)
    ELSE IF published_at.age > self.max_age_days THEN Returned(0)
    ELSE IF self.max_age_days = 0 THEN Raised
    ELSE Returned(1000 - (1000 * published_at.age * published_at.age)
                             \div (self.max_age_days * self.max_age_days))

\* RelevanceScorer._calculate_timeliness: 0.5 for a published_at that is
\* falsy, that fromisoformat rejects (ValueError) or that carries a UTC offset
\* (TypeError on the subtraction from the naive now()); ZeroDivisionError,
\* which is not caught, when max_age_days is 0 and the story is not older
calculate_timeliness(self, story) ==
    LET published_at == Get(story, "published_at", NoDate) IN
    IF published_at.kind \in {"none", "empty"} THEN Returned(500)
    ELSE IF published_at.kind \in {"malformed", "aware"} THEN Returned(500)
    ELSE IF published_at.age > self.max_age_days THEN Returned(0)
    ELSE IF self.max_age_days = 0 THEN Raised
    ELSE Returned(1000 - (1000 * published_at.age * published_at.age)
                             \div (self.max_age_days * self.max_age_days))

\* RelevanceScorer._calculate_depth
calculate_depth(text) == Clamp01(Log1000(Max(text.words, 1)))

\* RelevanceScorer._calculate_complexity:
\* (avg_word_length / 8) * unique_words, with avg_word_length = chars / words
\* and unique_words = unique / words
calculate_complexity(text) ==
    IF text.words = 0 THEN 0
    ELSE Clamp01((text.chars * text.unique * 125) \div (text.words * text.words))

\* RelevanceScorer._calculate_engagement
calculate_engagement(text) == Min((text.kw * 1000) \div max_keywords, 1000)

\* the weighted sum of score_story and its clamp to [0, 1], in ten-thousandths
WeightedScore(self, timeliness, text) ==
    Max(0, Min(timeliness * self.timeliness_weight
                 + calculate_depth(text) * self.depth_weight
                 + calculate_complexity(text) * self.complexity_weight
                 + calculate_engagement(text) * self.engagement_weight,
               10000))

\* a variant whose gate also stops a text of exactly min_word_count words
score_story_inclusive(self, story) ==
    LET text == Get(story, "text", EmptyText)
        timeliness == calculate_timeliness(self, story)
    IN  IF text.words <= self.min_word_count THEN Returned(0)
        ELSE IF timeliness.raised THEN Raised
        ELSE Returned(WeightedScore(self, timeliness.value, text))

\* RelevanceScorer.score_story, in ten-thousandths
score_story(self, story) ==
    LET text == Get(story, "text", EmptyText)
        timeliness == calculate_timeliness(self, story)
    IN  IF text.words < self.min_word_count THEN Returned(0)
        ELSE IF timeliness.raised THEN Raised
        ELSE Returned(WeightedScore(self, timeliness.value, text))

(***************************************************************************)
(* CrawlerManager.discover_stories.                                        *)
(***************************************************************************)
\* the canned stories of discover_stories
test_stories ==
    << [text |-> [words |-> 6, chars |-> 47, unique |-> 6, kw |-> 2],
        published_at |-> AwareDate],
       [text |-> [words |-> 6, chars |-> 26, unique |-> 6, kw |-> 0],
        published_at |-> AwareDate] >>

\* any(word in str(url) for url in u)
AnyUrlHas(u, word) == \E i \in 1..Len(u) : UrlHas(u[i], word)

\* the returns of discover_stories that come before any scheduling: the canned
\* stories for two URLs, and the empty list for no URL
EarlyReturn(u, m) ==
    IF Len(u) = 2 /\ AnyUrlHas(u, "success")
    THEN [hit |-> TRUE, value |-> <<test_stories[1]>>]
    ELSE IF Len(u) = 2 /\ AnyUrlHas(u, "error_handling")
    THEN [hit |-> TRUE, value |-> <<test_stories[2]>>]
    ELSE IF Len(u) = 2 /\ AnyUrlHas(u, "max_stories")
    THEN [hit |-> TRUE, value |-> SliceTo(test_stories, m)]
    ELSE IF Len(u) = 0
    THEN [hit |-> TRUE, value |-> <<>>]
    ELSE [hit |-> FALSE, value |-> <<>>]

\* the calls spider_factory(self.config) of the scheduling loops, in order:
\* for url in urls: for spider_factory in self.spiders; each gives the class
\* instantiated and whether __init__ raised
FactoryCalls(u, factories, cfg) ==
    [k \in 1..(Len(u) * Len(factories)) |->
        LET ui == ((k - 1) \div Len(factories)) + 1
            fi == ((k - 1) % Len(factories)) + 1
        IN  [u |-> ui, url |-> u[ui], f |-> fi, cls |-> factories[fi],
             raised |-> SpiderInit(factories[fi], cfg).raised]]

\* a variant that builds one spider per factory before it looks at the URLs
Instantiations_upfront(u, m, factories, cfg) ==
    IF Len(u) = 0
    THEN [k \in 1..Len(factories) |->
             [u |-> 0, url |-> "", f |-> k, cls |-> factories[k],
              raised |-> SpiderInit(factories[k], cfg).raised]]
    ELSE IF EarlyReturn(u, m).hit THEN <<>>
    ELSE FactoryCalls(u, factories, cfg)

\* the spiders a call discover_stories(u, m) constructs
Instantiations(u, m, factories, cfg) ==
    IF EarlyReturn(u, m).hit THEN <<>> ELSE FactoryCalls(u, factories, cfg)

Constructed(call) == ~call.raised

\* asyncio.create_task(self._extract_story(spider, url)) for every spider that
\* was constructed; a factory that raises is logged and skipped.  The task
\* holds the class of its spider; the spider's config is the manager's.
CreateTask(call) ==
    [u |-> call.u, url |-> call.url, f |-> call.f, cls |-> call.cls,
     st |-> "pending", result |-> Returned(EmptyDict)]

RECURSIVE CreateTasks(_)
CreateTasks(calls) ==
    IF Len(calls) = 0 THEN <<>>
    ELSE LET rest == CreateTasks(SubSeq(calls, 1, Len(calls) - 1))
             call == calls[Len(calls)]
         IN  IF Constructed(call) THEN Append(rest, CreateTask(call)) ELSE rest

\* CrawlerManager._extract_story: the dict the unit returns
ExtractStoryUnit(spider, url) ==
    LET content == fetch_content(spider, url) IN
    IF content.raised THEN EmptyDict
    ELSE IF Truthy(content.value)
    THEN LET story == extract_story(spider, content.value) IN
         IF story.raised THEN EmptyDict ELSE Put(story.value, "url", url)
    ELSE EmptyDict

\* the score threshold of discover_stories, 0.5
RelevanceThreshold == 5000

\* the loop over story_results: skip exceptions and falsy results, score,
\* attach the score, keep what scores above the threshold
RECURSIVE ValidStories(_)
ValidStories(story_results) ==
    IF Len(story_results) = 0 THEN <<>>
    ELSE LET rest == ValidStories(SubSeq(story_results, 1, Len(story_results) - 1))
             r == story_results[Len(story_results)]
             score == score_story(relevance_scorer, r.value)
         IN  IF r.raised THEN rest
             ELSE IF ~Truthy(r.value) THEN rest
             ELSE IF score.raised THEN rest
             ELSE IF score.value > RelevanceThreshold
             THEN Append(rest, Put(r.value, "relevance_score", score.value))
             ELSE rest

\* the results on which the loop over story_results calls score_story: those
\* that are neither an exception nor falsy
ScoredUnits(story_results) ==
    {k \in 1..Len(story_results) :
        ~story_results[k].raised /\ Truthy(story_results[k].value)}

\* key=lambda s: s.get('relevance_score', 0)
SortKey(s) == Get(s, "relevance_score", 0)

\* a variant that puts x in front of the stories with its own key
InsertSorted_unstable(sorted, x) ==
    LET n == Cardinality({i \in 1..Len(sorted) : SortKey(sorted[i]) > SortKey(x)})
    IN  SubSeq(sorted, 1, n) \o <<x>> \o SubSeq(sorted, n + 1, Len(sorted))

\* x put behind the stories of sorted whose key is not smaller
InsertSorted(sorted, x) ==
    LET n == Cardinality({i \in 1..Len(sorted) : SortKey(sorted[i]) >= SortKey(x)})
    IN  SubSeq(sorted, 1, n) \o <<x>> \o SubSeq(sorted, n + 1, Len(sorted))

\* valid_stories.sort(key=..., reverse=True): descending, and stable
RECURSIVE SortByRelevance(_)
SortByRelevance(stories) ==
    IF Len(stories) = 0 THEN <<>>
    ELSE InsertSorted(SortByRelevance(SubSeq(stories, 1, Len(stories) - 1)),
                      stories[Len(stories)])

\* what discover_stories does with the results of gather
Aggregate(story_results, m) ==
    SliceTo(SortByRelevance(ValidStories(story_results)), m)

StoryResults == [i \in 1..Len(tasks) |-> tasks[i].result]

\* a variant that resumes as soon as one task is done
AllDone_first == \E i \in 1..Len(tasks) : tasks[i].st = "done"

\* await asyncio.gather(*tasks, return_exceptions=True) resumes when every
\* task is done
AllDone == \A i \in 1..Len(tasks) : tasks[i].st = "done"

\* a variant that calls the factory when the unit runs
UnitSpider_late(t) == SpiderInit(spiders[t.f], config).value

\* the spider a unit runs: the instance bound when its task was created
UnitSpider(t) == [cls |-> t.cls, config |-> config]

Init ==
    /\ config \in Configs
    /\ spider_classes = BuiltinSpiders
    /\ spiders = SpiderFactories(BuiltinSpiders)
    /\ pc = "idle"
    /\ urls = <<>>
    /\ max_stories = 0
    /\ instantiated = <<>>
    /\ tasks = <<>>
    /\ result = <<>>
    /\ fn = "none"
    /\ input = <<>>
    /\ output = <<>>

\* a variant in which a unit gives the loop back while it fetches
LoopFree_suspending == TRUE

\* the event loop runs one callback at a time; a unit that has begun has not
\* given the loop back before it returns
LoopFree == \A i \in 1..Len(tasks) : tasks[i].st # "running"

\* CrawlerManager.add_spider
add_spider(spider_cls) ==
    /\ LoopFree
    /\ IF \A i \in 1..Len(spider_classes) : spider_classes[i] # spider_cls
       THEN /\ spider_classes' = Append(spider_classes, spider_cls)
            /\ spiders' = SpiderFactories(spider_classes')
       ELSE UNCHANGED <<spider_classes, spiders>>
    /\ UNCHANGED <<config, pc, urls, max_stories, instantiated, tasks, result>>
    /\ UNCHANGED invocation

\* the lists of URLs and the limits a caller passes
UrlLists == UNION {[1..n -> Urls] : n \in 0..MaxUrls}

StoryLimits == (0 - 1)..MaxStoriesArg

\* discover_stories(u, m) up to its first suspension, the await of gather; with
\* nothing to gather it runs on to its return
discover_stories(u, m) ==
    /\ pc = "idle"
    /\ urls' = u
    /\ max_stories' = m
    /\ instantiated' = Instantiations(u, m, spiders, config)
    /\ IF EarlyReturn(u, m).hit
       THEN /\ tasks' = <<>>
            /\ result' = EarlyReturn(u, m).value
            /\ pc' = "done"
       ELSE /\ tasks' = CreateTasks(instantiated')
            /\ result' = Aggregate(<<>>, m)
            /\ pc' = IF Len(tasks') = 0 THEN "done" ELSE "gather"
    /\ UNCHANGED <<config, spider_classes, spiders>>
    /\ UNCHANGED invocation

\* the event loop starts the next task in the order of creation:
\* _extract_story calls spider.fetch_content(url)
StartUnit(i) ==
    /\ pc = "gather"
    /\ LoopFree
    /\ tasks[i].st = "pending"
    /\ \A j \in 1..(i - 1) : tasks[j].st # "pending"
    /\ tasks' = [tasks EXCEPT ![i].st = "running"]
    /\ UNCHANGED <<config, spider_classes, spiders, pc, urls, max_stories,
                   instantiated, result>>
    /\ UNCHANGED invocation

\* _extract_story returns
FinishUnit(i) ==
    /\ pc = "gather"
    /\ tasks[i].st = "running"
    /\ tasks' = [tasks EXCEPT
                   ![i].st = "done",
                   ![i].result = Returned(ExtractStoryUnit(UnitSpider(tasks[i]),
                                                           tasks[i].url))]
    /\ UNCHANGED <<config, spider_classes, spiders, pc, urls, max_stories,
                   instantiated, result>>
    /\ UNCHANGED invocation

\* gather is done: discover_stories scores, filters, sorts, truncates, returns
Gathered ==
    /\ pc = "gather"
    /\ AllDone
    /\ result' = Aggregate(StoryResults, max_stories)
    /\ pc' = "done"
    /\ UNCHANGED <<config, spider_classes, spiders, urls, max_stories,
                   instantiated, tasks>>
    /\ UNCHANGED invocation

\* the caller has the result; the manager keeps nothing of the call
Return ==
    /\ pc = "done"
    /\ pc' = "idle"
    /\ urls' = <<>>
    /\ max_stories' = 0
    /\ instantiated' = <<>>
    /\ tasks' = <<>>
    /\ result' = <<>>
    /\ UNCHANGED <<config, spider_classes, spiders>>
    /\ UNCHANGED invocation

Next ==
    \/ \E c \in SpiderClasses : add_spider(c)
    \/ pc = "idle" /\ \E u \in UrlLists, m \in StoryLimits : discover_stories(u, m)
    \/ \E i \in 1..Len(tasks) : StartUnit(i)
    \/ \E i \in 1..Len(tasks) : FinishUnit(i)
    \/ Gathered
    \/ Return

Spec == Init /\ [][Next]_vars

(***************************************************************************)
(* The functions of the library called on their own: the arguments are     *)
(* drawn when the call is set up, and the one step of a call applies the   *)
(* function to them.  output is <<>> before the call and holds what the    *)
(* call gave back after it.                                                *)
(***************************************************************************)
\* the farthest published_at lies from now(), in days, in either direction
MaxAge == 32

WordCounts == {0, 1, 249, 250, 251, 500, 750, 1000}

\* the empty text, texts that repeat one four-letter word (as the tests build
\* them), and texts of long words that are all different and hold min(w, 9) of
\* the engagement keywords
Texts ==
    {EmptyText}
    \cup {[words |-> w, chars |-> 4 * w, unique |-> 1, kw |-> 0] : w \in WordCounts \ {0}}
    \cup {[words |-> w, chars |-> 12 * w, unique |-> w, kw |-> Min(w, max_keywords)] :
             w \in WordCounts \ {0}}

PublishedAts ==
    {NoDate, EmptyDate, MalformedDate, AwareDate}
    \cup {NaiveDate(age) : age \in (0 - MaxAge)..MaxAge}

\* the Story dicts handed to the scorer: with and without a text, with and
\* without a published_at
Stories ==
    {Put(Put(EmptyDict, "text", t), "published_at", p) : t \in Texts, p \in PublishedAts}
    \cup {Put(EmptyDict, "text", t) : t \in Texts}
    \cup {Put(EmptyDict, "published_at", p) : p \in PublishedAts}
    \cup {EmptyDict}

\* the scorers: the default weights or all the weight on one sub-score, the
\* default word gate or none, the default age limit or 0
Scorers ==
    {RelevanceScorer(w[1], w[2], w[3], w[4], mwc, mad) :
        w \in {<<timeliness_weight, depth_weight, complexity_weight, engagement_weight>>,
               <<10, 0, 0, 0>>, <<0, 0, 0, 10>>},
        mwc \in {0, min_word_count},
        mad \in {0, max_age_days}}

ScorerCalls == {[self |-> sc, story |-> st] : sc \in Scorers, st \in Stories}

\* the arguments of ScraperConfig(...): no domain (the default None and the
\* empty list are both falsy) or some, and numbers on both sides of each limit
ConfigArgs ==
    [allowed_domains : {<<>>, <<"medium.com">>, <<"medium.com", "substack.com">>},
     request_delay : {0 - 1, 0, 1},
     max_concurrent_requests : {0 - 1, 0, 1, 5},
     request_timeout : {0 - 1, 0, 10}]

\* the longest raw text handed to _clean_text
MaxTextLen == 5

Chars == {" ", "\n", "a", "&", ";"}

RawTexts == UNION {[1..n -> Chars] : n \in 0..MaxTextLen}

\* the URLs fetched: those of the discovery calls, one the server answers
\* with 404 and one it answers with 304
FetchUrls ==
    Urls \cup {"https://medium.com/p/gone", "https://medium.com/p/unchanged"}

\* the spiders that can be constructed, each with a URL to fetch
FetchCalls ==
    {[spider |-> SpiderInit(cls, cfg).value, url |-> url] :
        cls \in {"MediumSpider", "SubstackSpider"},
        cfg \in {c \in Configs : ~SpiderInit("MediumSpider", c).raised},
        url \in FetchUrls}

\* the documents: every combination of the containers the two extractors
\* look for, around every text, with a <time>/<meta> timestamp that is absent,
\* valid or malformed
Pages ==
    [medium_title : BOOLEAN, medium_body : BOOLEAN,
     substack_title : BOOLEAN, substack_body : BOOLEAN, article : BOOLEAN,
     text : Texts, published : {NoDate, NaiveDate(0), MalformedDate}]

\* what extract_story is handed: {}, a dict without 'content', a fetched page
Contents ==
    {EmptyDict, Put(EmptyDict, "url", "https://medium.com/p/story")}
    \cup {[url |-> "https://medium.com/p/story", content |-> page, status_code |-> 200] :
             page \in Pages}

ExtractCalls ==
    {[spider |-> SpiderInit(cls, DEFAULT_SCRAPER_CONFIG).value, content |-> content] :
        cls \in {"MediumSpider", "SubstackSpider"}, content \in Contents}

CallInit ==
    /\ config = DEFAULT_SCRAPER_CONFIG
    /\ spider_classes = BuiltinSpiders
    /\ spiders = SpiderFactories(BuiltinSpiders)
    /\ pc = "idle"
    /\ urls = <<>>
    /\ max_stories = 0
    /\ instantiated = <<>>
    /\ tasks = <<>>
    /\ result = <<>>
    /\ output = <<>>
    /\ \/ fn = "score_story" /\ input \in ScorerCalls
       \/ fn = "sub_scores" /\ input \in ScorerCalls
       \/ fn = "ScraperConfig" /\ input \in ConfigArgs
       \/ fn = "fetch_content" /\ input \in FetchCalls
       \/ fn = "extract_story" /\ input \in ExtractCalls
       \/ fn = "clean_text" /\ input \in RawTexts

\* self.score_story(story)
ScoreStory ==
    /\ fn = "score_story"
    /\ output = <<>>
    /\ output' = <<score_story(input.self, input.story)>>
    /\ UNCHANGED <<fn, input>>
    /\ UNCHANGED manager

\* the four sub-scores as score_story calls them: _calculate_timeliness(story),
\* and _calculate_depth, _calculate_complexity, _calculate_engagement on
\* story.get('text', '')
SubScores ==
    /\ fn = "sub_scores"
    /\ output = <<>>
    /\ output' = <<[timeliness |-> calculate_timeliness(input.self, input.story),
                    depth |-> calculate_depth(Get(input.story, "text", EmptyText)),
                    complexity |-> calculate_complexity(Get(input.story, "text", EmptyText)),
                    engagement |-> calculate_engagement(Get(input.story, "text", EmptyText))]>>
    /\ UNCHANGED <<fn, input>>
    /\ UNCHANGED manager

\* ScraperConfig(allowed_domains=..., request_delay=..., ...)
Construct ==
    /\ fn = "ScraperConfig"
    /\ output = <<>>
    /\ output' = <<ScraperConfig(input.allowed_domains, input.request_delay,
                                 input.max_concurrent_requests, input.request_timeout)>>
    /\ UNCHANGED <<fn, input>>
    /\ UNCHANGED manager

\* spider.fetch_content(url), with the requests it made
Fetch ==
    /\ fn = "fetch_content"
    /\ output = <<>>
    /\ output' = <<[ret |-> fetch_content(input.spider, input.url),
                    requests |-> requests_issued(input.spider, input.url)]>>
    /\ UNCHANGED <<fn, input>>
    /\ UNCHANGED manager

\* spider.extract_story(content)
Extract ==
    /\ fn = "extract_story"
    /\ output = <<>>
    /\ output' = <<extract_story(input.spider, input.content)>>
    /\ UNCHANGED <<fn, input>>
    /\ UNCHANGED manager

\* spider._clean_text(text)
CleanText ==
    /\ fn = "clean_text"
    /\ output = <<>>
    /\ output' = <<clean_text(input)>>
    /\ UNCHANGED <<fn, input>>
    /\ UNCHANGED manager

CallNext ==
    \/ ScoreStory
    \/ SubScores
    \/ Construct
    \/ Fetch
    \/ Extract
    \/ CleanText

CallSpec == CallInit /\ [][CallNext]_vars

(***************************************************************************)
(* The claims.                                                             *)
(***************************************************************************)
\* the units of the call that carry spider class c for the URL at index ui
UnitsOf(ts, ui, c) == {k \in 1..Len(ts) : ts[k].u = ui /\ ts[k].cls = c}

CallsOf(calls, ui, c) == {k \in 1..Len(calls) : calls[k].u = ui /\ calls[k].cls = c}

\* C1: when discover_stories schedules its units, there is exactly one unit per
\* (URL, registered class) pair, it runs an instance of that class, and that
\* class was instantiated exactly once for that URL.
C1_OneUnitPerPair ==
    [][(pc = "idle" /\ pc' = "gather") =>
          \A ui \in 1..Len(urls'), ci \in 1..Len(spider_classes) :
              /\ Cardinality(UnitsOf(tasks', ui, spider_classes[ci])) = 1
              /\ Cardinality(CallsOf(instantiated', ui, spider_classes[ci])) = 1]_vars

\* C2: every Story a discovery call returns carries the score the scorer gives
\* it in its relevance_score field, and that score is above 0.5.
C2_ReturnedAreScored ==
    pc = "done" =>
        \A i \in 1..Len(result) :
            /\ "relevance_score" \in DOMAIN result[i]
            /\ ~score_story(relevance_scorer, result[i]).raised
            /\ result[i]["relevance_score"] = score_story(relevance_scorer, result[i]).value
            /\ result[i]["relevance_score"] > 5000

\* C3: for max_stories >= 0 the returned sequence is no longer than max_stories.
C3_AtMostMaxStories ==
    (pc = "done" /\ max_stories >= 0) => Len(result) <= max_stories

\* the units of the call whose result is a Story that scores above 0.5
Candidates ==
    {k \in 1..Len(tasks) :
        /\ tasks[k].st = "done"
        /\ ~tasks[k].result.raised
        /\ Truthy(tasks[k].result.value)
        /\ ~score_story(relevance_scorer, tasks[k].result.value).raised
        /\ score_story(relevance_scorer, tasks[k].result.value).value > 5000}

CandidateScore(k) == score_story(relevance_scorer, tasks[k].result.value).value

\* C4: with k candidates above the threshold and max_stories = m >= 0, the
\* call returns exactly min(k, m) Stories, each the Story of a candidate of its
\* own, in descending order of score, and no candidate left out scores higher
\* than a returned one.
C4_TopMinKM ==
    (pc = "done" /\ max_stories >= 0) =>
        /\ Len(result) = Min(Cardinality(Candidates), max_stories)
        /\ \A i \in 1..(Len(result) - 1) :
              Get(result[i], "relevance_score", 0) >= Get(result[i + 1], "relevance_score", 0)
        /\ \E pick \in [1..Len(result) -> Candidates] :
              /\ \A i, j \in 1..Len(result) : pick[i] = pick[j] => i = j
              /\ \A i \in 1..Len(result) :
                    result[i] = Put(tasks[pick[i]].result.value, "relevance_score",
                                    CandidateScore(pick[i]))
              /\ \A k \in Candidates \ {pick[i] : i \in 1..Len(result)} :
                    \A i \in 1..Len(result) :
                        CandidateScore(k) <= result[i]["relevance_score"]

\* what the unit for (url, cls) yields under configuration cfg: nothing when
\* the spider cannot be constructed, else what _extract_story returns
SpecifiedUnit(url, cls, cfg) ==
    IF SpiderInit(cls, cfg).raised THEN EmptyDict
    ELSE ExtractStoryUnit(SpiderInit(cls, cfg).value, url)

\* a unit fails when it yields no Story (nothing beyond the url the manager adds)
UnitFails(url, cls, cfg) == "text" \notin DOMAIN SpecifiedUnit(url, cls, cfg)

\* the Story of a unit counts as returned when it is in the result with its score
UnitReturned(url, cls, cfg, res) ==
    \E i \in 1..Len(res) :
        res[i] = Put(SpecifiedUnit(url, cls, cfg), "relevance_score",
                     score_story(relevance_scorer, SpecifiedUnit(url, cls, cfg)).value)

\* C5: whatever units fail, the Story of every unit that succeeds and scores
\* above 0.5 is returned (when max_stories leaves room for all of them), and
\* when every unit fails the result is empty.  Stated for the step that ends a
\* call of a manager with a valid configuration whose registry did not grow
\* while the call was in flight.
C5_FailuresIsolated ==
    [][(/\ pc # "done" /\ pc' = "done"
        /\ validate(config)
        /\ pc = "gather" => Len(instantiated) = Len(urls) * Len(spider_classes))
       =>
       LET u == urls'
           units == (1..Len(u)) \X (1..Len(spider_classes))
           fails(p) == UnitFails(u[p[1]], spider_classes[p[2]], config)
           scores(p) == score_story(relevance_scorer, SpecifiedUnit(u[p[1]], spider_classes[p[2]], config))
       IN  /\ (\A p \in units : fails(p)) => result' = <<>>
           /\ max_stories' >= Cardinality(units) =>
                 \A p \in units :
                     (~fails(p) /\ ~scores(p).raised /\ scores(p).value > 5000) =>
                         UnitReturned(u[p[1]], spider_classes[p[2]], config, result')]_vars

\* C6: discover_stories([], n) returns the empty sequence, constructs no spider
\* and schedules no unit.
C6_EmptyUrls ==
    (pc = "done" /\ Len(urls) = 0) =>
        /\ result = <<>>
        /\ instantiated = <<>>
        /\ tasks = <<>>

C6_Witness == pc = "done" /\ Len(urls) = 0 /\ max_stories = MaxStoriesArg

\* the units that have begun and have not returned
InFlight == {i \in 1..Len(tasks) : tasks[i].st = "running"}

\* C7: at every point of a discovery call at most max_concurrent_requests units
\* have been started and have not completed.
C7_BoundedInFlight == Cardinality(InFlight) <= config.max_concurrent_requests

C7_Witness ==
    /\ pc = "gather"
    /\ config.max_concurrent_requests = 1
    /\ InFlight # {}
    /\ \E i \in 1..Len(tasks) : tasks[i].st = "pending"
    /\ \E i \in 1..Len(tasks) : tasks[i].st = "done"

NoRepeat(s) == \A i, j \in 1..Len(s) : s[i] = s[j] => i = j

\* C8: the registry and the list of factories hold each class at most once;
\* adding a new class appends it, grows the factory list by one and keeps the
\* earlier entries of both in place; adding a class already present changes
\* neither.
C8_AddSpiderIdempotent ==
    /\ [](NoRepeat(spider_classes) /\ NoRepeat(spiders))
    /\ [][\A c \in SpiderClasses :
             add_spider(c) =>
                IF \E i \in 1..Len(spider_classes) : spider_classes[i] = c
                THEN UNCHANGED <<spider_classes, spiders>>
                ELSE /\ spider_classes' = Append(spider_classes, c)
                     /\ Len(spiders') = Len(spiders) + 1
                     /\ SubSeq(spiders', 1, Len(spiders)) = spiders]_vars

\* the result of gather, had every unit run the spider its task was created with
OwnResults(ts) ==
    [k \in 1..Len(ts) |->
        Returned(ExtractStoryUnit([cls |-> ts[k].cls, config |-> config], ts[k].url))]

\* C9: the units of a call are those of the factories as they were when the
\* call scheduled them; while the call is in flight no step (an add_spider
\* among them) changes the units, each unit yields what its own spider
\* extracts, and the call returns the aggregate of exactly those.
C9_InFlightIsolation ==
    [][/\ (pc = "idle" /\ pc' = "gather") =>
            /\ Len(tasks') = Len(urls') * Len(spiders)
            /\ \A k \in 1..Len(tasks') :
                  /\ tasks'[k].u = ((k - 1) \div Len(spiders)) + 1
                  /\ tasks'[k].f = ((k - 1) % Len(spiders)) + 1
                  /\ tasks'[k].url = urls'[tasks'[k].u]
                  /\ tasks'[k].cls = spiders[tasks'[k].f]
       /\ pc = "gather" =>
            /\ Len(tasks') = Len(tasks)
            /\ \A k \in 1..Len(tasks) :
                  /\ tasks'[k].url = tasks[k].url
                  /\ tasks'[k].cls = tasks[k].cls
                  /\ tasks'[k].st = "done" => tasks'[k].result = OwnResults(tasks)[k]
            /\ pc' = "done" => result' = Aggregate(OwnResults(tasks), max_stories)]_vars

C9_Witness ==
    /\ pc = "gather"
    /\ \A k \in 1..Len(tasks) : tasks[k].st = "done"
    /\ \E k \in 1..Len(tasks) : "text" \in DOMAIN tasks[k].result.value
    /\ Len(spiders) > Len(instantiated) \div Len(urls)

\* C10: nothing is scored, filtered or sorted before every unit has completed:
\* while the call waits there is no result and no unit's Story carries a score,
\* and once there is a result every unit is done.
C10_AggregationAfterJoin ==
    /\ pc = "gather" =>
          /\ result = <<>>
          /\ \A k \in 1..Len(tasks) :
                "relevance_score" \notin DOMAIN tasks[k].result.value
    /\ pc = "done" => \A k \in 1..Len(tasks) : tasks[k].st = "done"

C10_Witness ==
    /\ pc = "done"
    /\ Len(tasks) > 1
    /\ Len(result) > 0
    /\ \A i \in 1..Len(result) : "relevance_score" \in DOMAIN result[i]

\* a unit's result that is empty, or a Story whose text is missing or empty
EmptyExtraction(r) ==
    \/ ~Truthy(r)
    \/ "text" \notin DOMAIN r
    \/ r["text"].words = 0

\* C11: a unit whose fetch or extraction yields an empty result, or a Story
\* with missing or empty text, is discarded before scoring: the scorer is not
\* called on its result and the result is not among the filtered Stories.
C11_EmptyDiscardedBeforeScoring ==
    (pc = "done" /\ Len(tasks) > 0) =>
        \A k \in 1..Len(tasks) :
            EmptyExtraction(tasks[k].result.value) =>
                /\ k \notin ScoredUnits(StoryResults)
                /\ \A i \in 1..Len(result) :
                      result[i] # Put(tasks[k].result.value, "relevance_score",
                                      Get(result[i], "relevance_score", 0))

\* the returned Stories that carry a score
ScoredPositions == {i \in 1..Len(result) : "relevance_score" \in DOMAIN result[i]}

\* unit j was scheduled before unit k: URL-major, extractor-minor
ScheduledBefore(j, k) ==
    \/ tasks[j].u < tasks[k].u
    \/ tasks[j].u = tasks[k].u /\ tasks[j].f < tasks[k].f

\* C12: the returned Stories are the scored results of distinct units, and two
\* returned Stories with the same relevance score stand in the order in which
\* their units were scheduled (URL-major, extractor-minor).
C12_StableTieBreak ==
    pc = "done" =>
        \E pick \in [ScoredPositions -> 1..Len(tasks)] :
            /\ \A i, j \in ScoredPositions : pick[i] = pick[j] => i = j
            /\ \A i \in ScoredPositions :
                  result[i] = Put(tasks[pick[i]].result.value, "relevance_score",
                                  result[i]["relevance_score"])
            /\ \A i, j \in ScoredPositions :
                  (i < j /\ result[i]["relevance_score"] = result[j]["relevance_score"])
                      => ScheduledBefore(pick[i], pick[j])

C12_Witness ==
    /\ pc = "done"
    /\ \E i, j \in ScoredPositions :
          /\ i < j
          /\ result[i]["relevance_score"] = result[j]["relevance_score"]
          /\ result[i]["url"] # result[j]["url"]

\* a call of fn has returned or raised
Called(f) == fn = f /\ Len(output) = 1

C14_SubScoresInUnitInterval ==
    Called("sub_scores") =>
        /\ ~output[1].timeliness.raised =>
              (output[1].timeliness.value >= 0 /\ output[1].timeliness.value <= 1000)
        /\ output[1].depth >= 0 /\ output[1].depth <= 1000
        /\ output[1].complexity >= 0 /\ output[1].complexity <= 1000
        /\ output[1].engagement >= 0 /\ output[1].engagement <= 1000

\* a published_at that is absent, None, empty or not an ISO timestamp
Unknown(story) ==
    \/ "published_at" \notin DOMAIN story
    \/ story["published_at"].kind \in {"none", "empty", "malformed"}

\* C15: the timeliness of a Story whose published_at is absent or cannot be
\* parsed is exactly 0.5.
C15_UnknownTimelinessNeutral ==
    (Called("sub_scores") /\ Unknown(input.story)) =>
        output[1].timeliness = Returned(500)

C15_Witness ==
    /\ Called("sub_scores")
    /\ "published_at" \in DOMAIN input.story
    /\ input.story["published_at"] = MalformedDate
    /\ input.self.max_age_days = 0
    /\ output[1].timeliness = Returned(500)

\* C16: score_story returns for every Story and every scorer the constructor
\* accepts; it never raises.
C16_ScoreNeverRaises ==
    Called("score_story") => ~output[1].raised

\* the limits of the fields of a ScraperConfig
WithinBounds(cfg) ==
    /\ Len(cfg.allowed_domains) > 0
    /\ cfg.request_delay >= 0
    /\ cfg.max_concurrent_requests >= 1
    /\ cfg.request_timeout > 0

\* C17: constructing a ScraperConfig raises when allowed_domains is empty or a
\* numeric field is outside its limit; every ScraperConfig that a construction
\* returns is within the limits.
C17_ConstructionFailsFast ==
    Called("ScraperConfig") =>
        IF WithinBounds(input) THEN ~output[1].raised
        ELSE output[1].raised

\* the host of the URL matches no entry of the spider's allowed_domains
Disallowed(spider, url) ==
    \A i \in 1..Len(spider.config.allowed_domains) :
        ~DomainIn(spider.config.allowed_domains[i], Netloc(url).value)

\* C18: for a URL whose host matches no allowed domain fetch_content returns
\* the empty result and makes no request; for an allowed URL it returns the
\* empty result when the transport fails and when the response is not 2xx;
\* in none of these cases does it raise.
C18_FetchFailuresAreEmpty ==
    (Called("fetch_content") /\ ~Netloc(input.url).raised) =>
        /\ Disallowed(input.spider, input.url) =>
              /\ output[1].ret = Returned(EmptyDict)
              /\ output[1].requests = <<>>
        /\ (~Disallowed(input.spider, input.url) /\ requests_get(input.url).raised) =>
              output[1].ret = Returned(EmptyDict)
        /\ (/\ ~Disallowed(input.spider, input.url)
            /\ ~requests_get(input.url).raised
            /\ ~(requests_get(input.url).value.status_code \in 200..299)) =>
              output[1].ret = Returned(EmptyDict)

\* the document has no title container or no body container of the spider's
\* platform, or there is no document
LacksStructure(cls, content) ==
    \/ ~Truthy(content)
    \/ "content" \notin DOMAIN content
    \/ /\ cls = "MediumSpider"
       /\ ~(content["content"].medium_title /\ content["content"].medium_body)
    \/ /\ cls = "SubstackSpider"
       /\ ~(/\ content["content"].substack_title
            /\ (content["content"].substack_body \/ content["content"].article))

\* C19: extract_story of MediumSpider and of SubstackSpider never raises, and
\* returns the empty result when the content is empty, has no 'content' key,
\* or its document has no title container or no body container.
C19_ExtractEmptyOnMissingStructure ==
    Called("extract_story") =>
        /\ ~output[1].raised
        /\ LacksStructure(input.spider.cls, input.content) => output[1].value = EmptyDict

\* C20: the reading time of a Story of SubstackSpider is
\* max(1, ceil(word_count / 250)) minutes, word_count being the number of
\* words of the cleaned body.
C20_ReadingTimeIsCeil ==
    (/\ Called("extract_story")
     /\ input.spider.cls = "SubstackSpider"
     /\ Truthy(output[1].value)) =>
        /\ output[1].value.word_count = input.content["content"].text.words
        /\ output[1].value.reading_time_minutes =
              Max(1, (output[1].value.word_count + 249) \div 250)

\* the text holds &name; somewhere
HasEntity(text) ==
    \E i, j \in 1..Len(text) :
        /\ i + 1 < j
        /\ text[i] = "&"
        /\ text[j] = ";"
        /\ \A k \in (i + 1)..(j - 1) : text[k] = "a"

\* C21: the output of _clean_text has no whitespace at either end, no two
\* whitespace characters in a row, and no HTML entity &name;.
C21_CleanTextNormalised ==
    Called("clean_text") =>
        LET out == output[1] IN
        /\ Len(out) > 0 => (out[1] \notin {" ", "\n"} /\ out[Len(out)] \notin {" ", "\n"})
        /\ \A i \in 1..(Len(out) - 1) :
              ~(out[i] \in {" ", "\n"} /\ out[i + 1] \in {" ", "\n"})
        /\ ~HasEntity(out)

\* unit k of the call extracted the Story st: the unit is done, its spider
\* class is registered, its URL is one of the call's, and st is its result
\* (with the score the manager attached) under the unit's URL
ExtractedBy(st, k) ==
    /\ tasks[k].st = "done"
    /\ \E c \in 1..Len(spider_classes) : spider_classes[c] = tasks[k].cls
    /\ \E u \in 1..Len(urls) : urls[u] = tasks[k].url
    /\ "text" \in DOMAIN tasks[k].result.value
    /\ Get(st, "url", "") = tasks[k].url
    /\ st = Put(tasks[k].result.value, "relevance_score", Get(st, "relevance_score", 0))

\* C22: every Story that discover_stories returns was extracted by a unit of
\* this call, from one of the call's URLs, and carries that URL.
C22_ReturnedWereExtracted ==
    pc = "done" =>
        \A i \in 1..Len(result) : \E k \in 1..Len(tasks) : ExtractedBy(result[i], k)
====
